---------------------------- MODULE Spec2Model ----------------------------
(***************************************************************************)
(* Model of shopify_richtext_converter/converter.py: html_to_richtext and  *)
(* its helpers _parse_inline and _text_node.                               *)
(*                                                                         *)
(* The BeautifulSoup parse tree is the input.  A parsed node is a record   *)
(*   [kind, name, attrs, string, contents]                                 *)
(* with kind "text" (NavigableString), "comment" (bs4 Comment, a subclass  *)
(* of NavigableString) or "tag" (Tag).  A Python str is a sequence of      *)
(* one-character strings.  An output node is a Python dict, modelled as a  *)
(* record that has exactly the keys the dict has.                          *)
(***************************************************************************)
EXTENDS Integers, Sequences, FiniteSets, TLC

VARIABLES
    falsy,          \* `not html_content` (line 114)
    soup,           \* soup.contents: what BeautifulSoup(html_content) holds
    top_level,      \* line 120
    idx,            \* position of `for node in top_level` (1-based)
    root_children,  \* line 122
    origin,         \* history: origin[k] = index in top_level of the node
                    \* whose iteration appended root_children[k]
    result,         \* the returned dict, NoResult before the return
    pc              \* "start", "loop" or "done"

vars == <<falsy, soup, top_level, idx, root_children, origin, result, pc>>

-----------------------------------------------------------------------------
(* Python values *)

\* None, as returned by Tag.get for an absent attribute; no attribute of
\* AttrSets has this value.
None == "None"

NoResult == <<>>

\* str.strip() with no argument strips these (the model's strings hold only
\* the first three of them).
Whitespace == {" ", "\n", "\t", "\r", "\f"}

RECURSIVE lstrip(_, _)
lstrip(s, chars) ==
    IF s # <<>> /\ Head(s) \in chars THEN lstrip(Tail(s), chars) ELSE s

RECURSIVE rstrip(_, _)
rstrip(s, chars) ==
    IF s # <<>> /\ s[Len(s)] \in chars
    THEN rstrip(SubSeq(s, 1, Len(s) - 1), chars)
    ELSE s

\* str.strip(chars)
strip(s, chars) == rstrip(lstrip(s, chars), chars)

\* int(c) for a one-digit string
int ==
    [c \in {"0", "1", "2", "3", "4", "5", "6", "7", "8", "9"} |->
        CASE c = "0" -> 0 [] c = "1" -> 1 [] c = "2" -> 2 [] c = "3" -> 3
          [] c = "4" -> 4 [] c = "5" -> 5 [] c = "6" -> 6 [] c = "7" -> 7
          [] c = "8" -> 8 [] c = "9" -> 9]

\* The characters of the tag names whose characters the code reads
\* (tag_name[1] at line 139 is read of a name in heading_tags only).
chars_of ==
    [t \in {"h1", "h2", "h3", "h4", "h5", "h6"} |->
        CASE t = "h1" -> <<"h", "1">> [] t = "h2" -> <<"h", "2">>
          [] t = "h3" -> <<"h", "3">> [] t = "h4" -> <<"h", "4">>
          [] t = "h5" -> <<"h", "5">> [] t = "h6" -> <<"h", "6">>]

-----------------------------------------------------------------------------
(* bs4 parse tree *)

NavigableString(s) ==
    [kind |-> "text", name |-> "", attrs |-> <<>>, string |-> s,
     contents |-> <<>>]

Comment(s) ==
    [kind |-> "comment", name |-> "", attrs |-> <<>>, string |-> s,
     contents |-> <<>>]

Tag(name, attrs, contents) ==
    [kind |-> "tag", name |-> name, attrs |-> attrs, string |-> <<>>,
     contents |-> contents]

\* isinstance(node, NavigableString): true of a Comment as well
isNavigableString(node) == node.kind \in {"text", "comment"}

\* element.get(key): the attribute's value, None when absent
get(element, key) ==
    IF key \in DOMAIN element.attrs THEN element.attrs[key] ELSE None

\* element.get_text(): the descendant strings in document order, joined;
\* bs4 leaves Comment strings out of it.
RECURSIVE get_text(_)
RECURSIVE join_text(_)
join_text(nodes) ==
    IF nodes = <<>> THEN <<>>
    ELSE get_text(Head(nodes)) \o join_text(Tail(nodes))

get_text(node) ==
    IF node.kind = "text" THEN node.string
    ELSE IF node.kind = "comment" THEN <<>>
    ELSE join_text(node.contents)

\* node.find_all("li", recursive=False): the direct children that are li tags
RECURSIVE find_all_li(_)
find_all_li(nodes) ==
    IF nodes = <<>> THEN <<>>
    ELSE IF Head(nodes).kind = "tag" /\ Head(nodes).name = "li"
         THEN <<Head(nodes)>> \o find_all_li(Tail(nodes))
         ELSE find_all_li(Tail(nodes))

\* soup.body: the first tag named body in document order, as a sequence
\* holding it, or <<>> when there is none (None, falsy)
RECURSIVE find_body(_)
find_body(nodes) ==
    IF nodes = <<>> THEN <<>>
    ELSE LET n == Head(nodes)
             here == IF n.kind # "tag" THEN <<>>
                     ELSE IF n.name = "body" THEN <<n>>
                     ELSE find_body(n.contents)
         IN IF here # <<>> THEN here ELSE find_body(Tail(nodes))

-----------------------------------------------------------------------------
(* converter.py *)

\* _text_node with value.strip() in place of value.strip("\n")
_text_node_strip_all(value, bold, italic) ==
    LET v == strip(value, Whitespace)
    IN IF bold /\ italic
       THEN [type |-> "text", value |-> v, bold |-> TRUE, italic |-> TRUE]
       ELSE IF bold THEN [type |-> "text", value |-> v, bold |-> TRUE]
       ELSE IF italic THEN [type |-> "text", value |-> v, italic |-> TRUE]
       ELSE [type |-> "text", value |-> v]

_text_node(value, bold, italic) ==
    LET v == strip(value, {"\n"})
    IN IF bold /\ italic
       THEN [type |-> "text", value |-> v, bold |-> TRUE, italic |-> TRUE]
       ELSE IF bold THEN [type |-> "text", value |-> v, bold |-> TRUE]
       ELSE IF italic THEN [type |-> "text", value |-> v, italic |-> TRUE]
       ELSE [type |-> "text", value |-> v]

\* `not text.strip()`
is_blank(text) == strip(text, Whitespace) = <<>>

\* merge_bold that forgets <b>
merge_bold_strong_only(tag_name, bold) ==
    IF tag_name = "strong" THEN TRUE ELSE bold

\* merge_italic that assigns the flag instead of accumulating it
merge_italic_assign(tag_name, italic) ==
    IF tag_name \in {"strong", "b"} THEN italic
    ELSE tag_name \in {"em", "i"}

\* lines 59-62: the context a tag hands to its subtree
merge_bold(tag_name, bold) ==
    IF tag_name \in {"strong", "b"} THEN TRUE ELSE bold

merge_italic(tag_name, italic) ==
    IF tag_name \in {"strong", "b"} THEN italic
    ELSE IF tag_name \in {"em", "i"} THEN TRUE
    ELSE italic

\* link_node without the get_text fallback
link_node_no_fallback(element, children, bold, italic) ==
    [type |-> "link",
     url |-> get(element, "href"),
     title |-> get(element, "title"),
     target |-> get(element, "target"),
     children |-> children]

\* lines 71-79
link_node(element, children, bold, italic) ==
    [type |-> "link",
     url |-> get(element, "href"),
     title |-> get(element, "title"),
     target |-> get(element, "target"),
     children |-> IF children # <<>> THEN children
                  ELSE <<_text_node(get_text(element), bold, italic)>>]

RECURSIVE _parse_inline(_, _, _)
RECURSIVE extend_all(_, _, _)
\* for child in element.contents: children.extend(_parse_inline(child, ...))
extend_all(contents, bold, italic) ==
    IF contents = <<>> THEN <<>>
    ELSE _parse_inline(Head(contents), bold, italic)
         \o extend_all(Tail(contents), bold, italic)

_parse_inline(element, bold, italic) ==
    IF isNavigableString(element)
    THEN IF is_blank(element.string) THEN <<>>
         ELSE <<_text_node(element.string, bold, italic)>>
    ELSE LET tag_name == element.name
             b == merge_bold(tag_name, bold)
             i == merge_italic(tag_name, italic)
             children == extend_all(element.contents, b, i)
         IN IF tag_name = "a" THEN <<link_node(element, children, b, i)>>
            ELSE children

heading_tags == {"h1", "h2", "h3", "h4", "h5", "h6"}

\* heading_level with len(tag_name) in place of int(tag_name[1])
heading_level_len(tag_name) == Len(chars_of[tag_name])

\* line 139 (Python indexes from 0)
heading_level(tag_name) == int[chars_of[tag_name][2]]

heading_block(node) ==
    [type |-> "heading", level |-> heading_level(node.name),
     children |-> _parse_inline(node, FALSE, FALSE)]

paragraph_block(node) ==
    [type |-> "paragraph", children |-> _parse_inline(node, FALSE, FALSE)]

list_type(tag_name) == IF tag_name = "ul" THEN "unordered" ELSE "ordered"

\* list_items without the `if li_children` test
RECURSIVE list_items_keep_empty(_)
list_items_keep_empty(lis) ==
    IF lis = <<>> THEN <<>>
    ELSE <<[type |-> "list-item",
            children |-> _parse_inline(Head(lis), FALSE, FALSE)]>>
         \o list_items_keep_empty(Tail(lis))

\* lines 154-157
RECURSIVE list_items(_)
list_items(lis) ==
    IF lis = <<>> THEN <<>>
    ELSE LET li_children == _parse_inline(Head(lis), FALSE, FALSE)
         IN (IF li_children # <<>>
             THEN <<[type |-> "list-item", children |-> li_children]>>
             ELSE <<>>) \o list_items(Tail(lis))

\* list_blocks without the `if items` test
list_blocks_always(node) ==
    <<[type |-> "list", listType |-> list_type(node.name),
       children |-> list_items(find_all_li(node.contents))]>>

\* lines 158-159: what the list iteration appends to root_children
list_blocks(node) ==
    LET items == list_items(find_all_li(node.contents))
    IN IF items # <<>>
       THEN <<[type |-> "list", listType |-> list_type(node.name),
               children |-> items]>>
       ELSE <<>>

\* quote_block without the synthetic paragraph
quote_block_flat(node) ==
    [type |-> "quote", children |-> _parse_inline(node, FALSE, FALSE)]

quote_block(node) ==
    [type |-> "quote",
     children |-> <<[type |-> "paragraph",
                     children |-> _parse_inline(node, FALSE, FALSE)]>>]

\* stray_text_blocks without the paragraph around the text
stray_text_blocks_bare(node) ==
    IF ~is_blank(node.string) THEN _parse_inline(node, FALSE, FALSE) ELSE <<>>

\* lines 128-133: what a top-level NavigableString appends
stray_text_blocks(node) ==
    IF ~is_blank(node.string)
    THEN <<[type |-> "paragraph",
            children |-> _parse_inline(node, FALSE, FALSE)]>>
    ELSE <<>>

-----------------------------------------------------------------------------
(* Inputs: the parse trees html_to_richtext is run on *)

MaxTextLen == 3    \* characters of a string in TextDocs
MaxTop == 2        \* top-level nodes of a document in BlockDocs
MaxItems == 2      \* children of a ul/ol in ListDocs
MaxNodes == 3      \* nodes of a tree in TreeDocs

Chars == {"x", " ", "\n"}

StringsUpTo(n) == UNION {[1..k -> Chars] : k \in 1..n}

SeqsUpTo(S, n) == UNION {[1..k -> S] : k \in 0..n}

NoAttrs == <<>>

X == NavigableString(<<"x">>)

Tags ==
    heading_tags \cup
    {"h7", "p", "ul", "ol", "li", "blockquote", "strong", "b", "em", "i",
     "a", "span"}

AttrSets ==
    {NoAttrs} \cup
    {[href |-> h] : h \in {"", "u"}} \cup
    {[title |-> "t"], [target |-> "_blank"],
     [href |-> "u", title |-> "t"], [href |-> "u", target |-> "_blank"],
     [title |-> "t", target |-> "_blank"],
     [href |-> "u", title |-> "t", target |-> "_blank"]}

\* Every string up to MaxTextLen, as text and as comment, in each place a
\* string can stand.
TextPlaces == {"top", "comment", "p", "p-comment", "a", "li", "blockquote", "em"}

InPlace(place, s) ==
    CASE place = "top" -> <<NavigableString(s)>>
      [] place = "comment" -> <<Comment(s)>>
      [] place = "p" -> <<Tag("p", NoAttrs, <<NavigableString(s)>>)>>
      [] place = "p-comment" -> <<Tag("p", NoAttrs, <<Comment(s)>>)>>
      [] place = "a" ->
            <<Tag("p", NoAttrs, <<Tag("a", NoAttrs, <<NavigableString(s)>>)>>)>>
      [] place = "li" ->
            <<Tag("ul", NoAttrs, <<Tag("li", NoAttrs, <<NavigableString(s)>>)>>)>>
      [] place = "blockquote" -> <<Tag("blockquote", NoAttrs, <<NavigableString(s)>>)>>
      [] place = "em" -> <<Tag("em", NoAttrs, <<NavigableString(s)>>)>>

TextDocs == {InPlace(place, s) : place \in TextPlaces, s \in StringsUpTo(MaxTextLen)}

\* Up to MaxTop top-level nodes: every tag, strings, a comment, short lists.
TopNodes ==
    {X, NavigableString(<<" ">>), Comment(<<"x">>)} \cup
    {Tag(t, NoAttrs, <<X>>) : t \in Tags} \cup
    {Tag(t, NoAttrs, <<>>) : t \in {"p", "h1", "ul", "blockquote", "a"}} \cup
    {Tag("ul", NoAttrs, <<Tag("li", NoAttrs, <<>>)>>)} \cup
    {Tag(t, NoAttrs, <<Tag("li", NoAttrs, <<X>>)>>) : t \in {"ul", "ol"}}

BlockDocs == SeqsUpTo(TopNodes, MaxTop)

\* Every tag as the child of a paragraph, a list inside a paragraph, and
\* every attribute set on a link.
InnerDocs ==
    {<<Tag("p", NoAttrs, <<Tag(t, NoAttrs, <<X>>)>>)>> : t \in Tags} \cup
    {<<Tag("p", NoAttrs, <<Tag(t, NoAttrs, <<Tag("li", NoAttrs, <<X>>)>>)>>)>> :
        t \in {"ul", "ol"}} \cup
    {<<Tag("p", NoAttrs, <<Tag("a", at, c)>>)>> :
        at \in AttrSets, c \in {<<>>, <<X>>, <<NavigableString(<<" ">>)>>}} \cup
    {<<Tag("a", at, <<X>>)>> : at \in AttrSets}

\* ul and ol with up to MaxItems children.
ListKids ==
    {X, NavigableString(<<"\n">>),
     Tag("li", NoAttrs, <<>>), Tag("li", NoAttrs, <<X>>),
     Tag("li", NoAttrs, <<NavigableString(<<" ">>)>>),
     Tag("li", NoAttrs, <<Tag("a", NoAttrs, <<>>)>>),
     Tag("li", NoAttrs, <<Tag("ul", NoAttrs, <<Tag("li", NoAttrs, <<X>>)>>)>>),
     Tag("li", NoAttrs, <<Tag("p", NoAttrs, <<X>>)>>),
     Tag("div", NoAttrs, <<Tag("li", NoAttrs, <<X>>)>>),
     Tag("ul", NoAttrs, <<Tag("li", NoAttrs, <<X>>)>>)}

ListDocs ==
    {<<Tag(t, NoAttrs, kids)>> : t \in {"ul", "ol"}, kids \in SeqsUpTo(ListKids, MaxItems)}

\* Every tree of up to MaxNodes nodes over TreeTags and TreeLeaves, at top
\* level, inside a paragraph, inside a list item, and inside a paragraph
\* with a string after it.
TreeTags == {"strong", "em", "a", "span", "ul"}

TreeLeaves == {X, NavigableString(<<" ">>), Comment(<<"x">>)}

RECURSIVE TreesOfSize(_)
RECURSIVE ForestsOfSize(_)
ForestsOfSize(n) ==
    IF n = 0 THEN {<<>>}
    ELSE UNION {{<<t>> \o f : t \in TreesOfSize(k), f \in ForestsOfSize(n - k)}
                : k \in 1..n}

TreesOfSize(n) ==
    IF n = 1 THEN TreeLeaves \cup {Tag(t, NoAttrs, <<>>) : t \in TreeTags}
    ELSE {Tag(t, NoAttrs, f) : t \in TreeTags, f \in ForestsOfSize(n - 1)}

Trees == UNION {TreesOfSize(n) : n \in 1..MaxNodes}

TreePlaces == {"top", "p", "li", "sibling"}

Around(place, t) ==
    CASE place = "top" -> <<t>>
      [] place = "p" -> <<Tag("p", NoAttrs, <<t>>)>>
      [] place = "li" -> <<Tag("ul", NoAttrs, <<Tag("li", NoAttrs, <<t>>)>>)>>
      [] place = "sibling" -> <<Tag("p", NoAttrs, <<t, X>>)>>

TreeDocs == {Around(place, t) : place \in TreePlaces, t \in Trees}

\* Documents with a body tag: html.parser keeps it where it stands.
BodyDocs ==
    {<<Tag("body", NoAttrs, d)>> : d \in SeqsUpTo(TopNodes, 1)} \cup
    {<<X, Tag("div", NoAttrs, <<Tag("body", NoAttrs, d)>>), Tag("p", NoAttrs, <<X>>)>> :
        d \in SeqsUpTo(TopNodes, 1)}

Docs == TextDocs \cup BlockDocs \cup InnerDocs \cup ListDocs \cup TreeDocs \cup BodyDocs

-----------------------------------------------------------------------------
(* html_to_richtext as a state machine: one action per path of the loop body *)

Init ==
    /\ soup \in Docs
    /\ falsy \in BOOLEAN
    /\ falsy => soup = <<>>
    /\ top_level = <<>>
    /\ idx = 1
    /\ root_children = <<>>
    /\ origin = <<>>
    /\ result = NoResult
    /\ pc = "start"

\* lines 114-115
ReturnEmpty ==
    /\ pc = "start"
    /\ falsy
    /\ result' = [type |-> "root", children |-> <<>>]
    /\ pc' = "done"
    /\ UNCHANGED <<falsy, soup, top_level, idx, root_children, origin>>

\* lines 117-122
Parse ==
    /\ pc = "start"
    /\ ~falsy
    /\ top_level' = IF find_body(soup) # <<>> THEN find_body(soup)[1].contents
                    ELSE soup
    /\ root_children' = <<>>
    /\ idx' = 1
    /\ pc' = "loop"
    /\ UNCHANGED <<falsy, soup, origin, result>>

InLoop == pc = "loop" /\ idx <= Len(top_level)

node == top_level[idx]

\* root_children.append for each of blocks, then the next iteration
append_blocks(blocks) ==
    /\ root_children' = root_children \o blocks
    /\ origin' = origin \o [k \in 1..Len(blocks) |-> idx]
    /\ idx' = idx + 1
    /\ UNCHANGED <<falsy, soup, top_level, result, pc>>

\* lines 128-133
StrayText ==
    /\ InLoop
    /\ isNavigableString(node)
    /\ append_blocks(stray_text_blocks(node))

\* lines 138-142
Heading ==
    /\ InLoop
    /\ ~isNavigableString(node)
    /\ node.name \in heading_tags
    /\ append_blocks(<<heading_block(node)>>)

\* lines 145-148
Paragraph ==
    /\ InLoop
    /\ ~isNavigableString(node)
    /\ node.name \notin heading_tags
    /\ node.name = "p"
    /\ append_blocks(<<paragraph_block(node)>>)

\* lines 151-160
List ==
    /\ InLoop
    /\ ~isNavigableString(node)
    /\ node.name \notin heading_tags \cup {"p"}
    /\ node.name \in {"ul", "ol"}
    /\ append_blocks(list_blocks(node))

\* lines 163-166
BlockQuote ==
    /\ InLoop
    /\ ~isNavigableString(node)
    /\ node.name \notin heading_tags \cup {"p", "ul", "ol"}
    /\ node.name = "blockquote"
    /\ append_blocks(<<quote_block(node)>>)

\* lines 168-170
Fallback ==
    /\ InLoop
    /\ ~isNavigableString(node)
    /\ node.name \notin heading_tags \cup {"p", "ul", "ol", "blockquote"}
    /\ append_blocks(<<paragraph_block(node)>>)

\* line 172
Return ==
    /\ pc = "loop"
    /\ idx > Len(top_level)
    /\ result' = [type |-> "root", children |-> root_children]
    /\ pc' = "done"
    /\ UNCHANGED <<falsy, soup, top_level, idx, root_children, origin>>

Next ==
    \/ ReturnEmpty
    \/ Parse
    \/ StrayText
    \/ Heading
    \/ Paragraph
    \/ List
    \/ BlockQuote
    \/ Fallback
    \/ Return

Spec == Init /\ [][Next]_vars

-----------------------------------------------------------------------------
(* Vocabulary of the properties *)

Done == pc = "done"

\* The block nodes so far; the returned root's children once returned.
blocks == IF Done THEN result.children ELSE root_children

\* The top-level nodes whose iteration is over.
Processed == {j \in 1..Len(top_level) : j < idx}

NumBlocksFrom(j) == Cardinality({k \in 1..Len(origin) : origin[k] = j})

BlockFrom(j) == blocks[CHOOSE k \in 1..Len(origin) : origin[k] = j]

Range(seq) == {seq[k] : k \in 1..Len(seq)}

\* The top-level nodes whose iteration is over, as a sequence.
Seen == [j \in Processed |-> top_level[j]]

IsTag(n, names) == n.kind = "tag" /\ n.name \in names

BlockTagNames == {"h1", "h2", "h3", "h4", "h5", "h6", "p", "ul", "ol", "blockquote"}

AllWhitespace(str) == \A k \in 1..Len(str) : str[k] \in {" ", "\n", "\t", "\r", "\f"}

\* str with its leading and trailing newline characters removed
NLTrim(str) ==
    LET keep == {k \in 1..Len(str) : str[k] # "\n"}
    IN IF keep = {} THEN <<>>
       ELSE SubSeq(str, CHOOSE k \in keep : \A m \in keep : k <= m,
                        CHOOSE k \in keep : \A m \in keep : k >= m)

DirectLis(n) == SelectSeq(n.contents, LAMBDA c : IsTag(c, {"li"}))

\* A subtree the resolver returns something for: it holds a string that is
\* not all whitespace, or an anchor.
RECURSIVE Visible(_)
Visible(n) ==
    IF n.kind # "tag" THEN ~AllWhitespace(n.string)
    ELSE n.name = "a" \/ \E k \in 1..Len(n.contents) : Visible(n.contents[k])

VisibleLis(n) == SelectSeq(DirectLis(n), Visible)

\* The subtrees of top-level node n that are handed to the resolver.
Resolved(n) == IF IsTag(n, {"ul", "ol"}) THEN VisibleLis(n) ELSE <<n>>

\* Every node of a forest, parents before children, in document order;
\* the children are read under key.
RECURSIVE Flatten(_)
Flatten(nodes) ==
    IF nodes = <<>> THEN <<>>
    ELSE LET h == Head(nodes)
         IN <<h>> \o (IF "children" \in DOMAIN h THEN Flatten(h.children) ELSE <<>>)
                  \o Flatten(Tail(nodes))

RECURSIVE Descendants(_)
Descendants(nodes) ==
    IF nodes = <<>> THEN <<>>
    ELSE <<Head(nodes)>> \o Descendants(Head(nodes).contents)
                         \o Descendants(Tail(nodes))

TextsOf(outnodes) == SelectSeq(Flatten(outnodes), LAMBDA o : o.type = "text")

HasFlags(t, b, i) == ("bold" \in DOMAIN t) = b /\ ("italic" \in DOMAIN t) = i

-----------------------------------------------------------------------------
(* C1 *)

\* C1, as claimed: a top-level element outside h1..h6, p, ul, ol, blockquote
\* appends one paragraph whose children are the resolver's results over the
\* element's direct children with bold = italic = false, the element itself
\* adding nothing.
C1_FallbackResolvesChildrenOnly ==
    \A j \in Processed :
        (top_level[j].kind = "tag" /\ top_level[j].name \notin BlockTagNames) =>
            /\ NumBlocksFrom(j) = 1
            /\ BlockFrom(j) =
                 [type |-> "paragraph",
                  children |-> extend_all(top_level[j].contents, FALSE, FALSE)]

\* C1, amended: the paragraph's children are the resolver's result for the
\* element itself: a top-level strong/b resolves its children with bold,
\* em/i with italic, a top-level anchor gives one link node around its
\* resolved children, any other tag gives its children's results unchanged.
C1_FallbackResolvesElement ==
    \A j \in Processed :
        LET n == top_level[j]
            plain == extend_all(n.contents, FALSE, FALSE)
        IN (n.kind = "tag" /\ n.name \notin BlockTagNames) =>
            /\ NumBlocksFrom(j) = 1
            /\ BlockFrom(j).type = "paragraph"
            /\ DOMAIN BlockFrom(j) = {"type", "children"}
            /\ LET got == BlockFrom(j).children
               IN CASE n.name \in {"strong", "b"} ->
                           got = extend_all(n.contents, TRUE, FALSE)
                    [] n.name \in {"em", "i"} ->
                           got = extend_all(n.contents, FALSE, TRUE)
                    [] n.name = "a" ->
                           /\ Len(got) = 1
                           /\ got[1].type = "link"
                           /\ plain # <<>> => got[1].children = plain
                    [] OTHER -> got = plain

\* A returned tree whose second top-level node, a <b> with text in it, gave a
\* paragraph with bold text, and whose first, an anchor, gave a link.
C1_Witness ==
    /\ Done
    /\ Len(top_level) = 2
    /\ IsTag(top_level[1], {"a"})
    /\ IsTag(top_level[2], {"b"})
    /\ Len(blocks) = 2
    /\ blocks[1].children # <<>> /\ blocks[1].children[1].type = "link"
    /\ blocks[2].children # <<>> /\ "bold" \in DOMAIN blocks[2].children[1]

-----------------------------------------------------------------------------
(* C2 *)

\* C2, as claimed: once returned, as many blocks come from top-level element
\* nodes as there are top-level element nodes.
C2_EveryElementGivesABlock ==
    Done =>
        Cardinality({k \in 1..Len(origin) : top_level[origin[k]].kind = "tag"})
            = Cardinality({j \in 1..Len(top_level) : top_level[j].kind = "tag"})

\* C2, amended: a top-level element gives exactly one block, except a ul/ol
\* none of whose direct li children holds a non-whitespace string or an
\* anchor, which gives none.
C2_ElementGivesOneBlockUnlessEmptyList ==
    \A j \in Processed :
        top_level[j].kind = "tag" =>
            NumBlocksFrom(j) =
                IF IsTag(top_level[j], {"ul", "ol"}) /\ VisibleLis(top_level[j]) = <<>>
                THEN 0 ELSE 1

\* A returned tree with a paragraph from the first top-level element and
\* nothing from the second, a list with one empty item.
C2_Witness ==
    /\ Done
    /\ Len(top_level) = 2
    /\ IsTag(top_level[2], {"ul", "ol"})
    /\ DirectLis(top_level[2]) # <<>>
    /\ top_level[1].kind = "tag"
    /\ Len(blocks) = 1
    /\ origin = <<1>>

-----------------------------------------------------------------------------
(* C3 *)

\* C3: every list node holds at least one child, all of them list-items with
\* at least one child; a top-level ul/ol gives one item per direct li child
\* that resolves to something, in order, and no list node when there is none.
C3_ListsHaveItems ==
    /\ \A o \in Range(Flatten(blocks)) :
             /\ o.type = "list" =>
                   /\ o.children # <<>>
                   /\ \A m \in 1..Len(o.children) : o.children[m].type = "list-item"
             /\ o.type = "list-item" => o.children # <<>>
    /\ \A j \in Processed :
          LET n == top_level[j]
          IN IsTag(n, {"ul", "ol"}) =>
                IF VisibleLis(n) = <<>> THEN NumBlocksFrom(j) = 0
                ELSE /\ NumBlocksFrom(j) = 1
                     /\ BlockFrom(j).type = "list"
                     /\ Len(BlockFrom(j).children) = Len(VisibleLis(n))
                     /\ \A m \in 1..Len(VisibleLis(n)) :
                           BlockFrom(j).children[m] =
                               [type |-> "list-item",
                                children |-> extend_all(VisibleLis(n)[m].contents,
                                                        FALSE, FALSE)]

\* A returned list with one item, from a ul/ol with two direct li children of
\* which one resolves to nothing.
C3_Witness ==
    /\ Done
    /\ Len(top_level) = 1
    /\ IsTag(top_level[1], {"ul", "ol"})
    /\ Len(DirectLis(top_level[1])) = 2
    /\ Len(blocks) = 1
    /\ blocks[1].type = "list"
    /\ Len(blocks[1].children) = 1

-----------------------------------------------------------------------------
(* C10 *)

\* C10: a top-level comment gives no block, and its content is the value of
\* no text node.
C10_CommentsSkipped ==
    /\ \A k \in 1..Len(origin) : top_level[origin[k]].kind # "comment"
    /\ \A j \in 1..Len(top_level) :
          (top_level[j].kind = "comment" /\ ~AllWhitespace(top_level[j].string)) =>
              \A t \in Range(TextsOf(blocks)) :
                  t.value # NLTrim(top_level[j].string)

-----------------------------------------------------------------------------
(* C4 *)

\* The flags of the text nodes the resolver gives for subtree n, in order,
\* read off the path: path holds the names of the tags from the resolved
\* node down to n's parent, b0 and i0 are the inherited context.  An anchor
\* that resolves to nothing gives one text node under the anchor's flags.
RECURSIVE PathFlags(_, _, _, _)
RECURSIVE PathFlagsAll(_, _, _, _)
PathFlagsAll(nodes, path, b0, i0) ==
    IF nodes = <<>> THEN <<>>
    ELSE PathFlags(Head(nodes), path, b0, i0)
         \o PathFlagsAll(Tail(nodes), path, b0, i0)

PathFlags(n, path, b0, i0) ==
    LET here == IF n.kind = "tag" THEN path \cup {n.name} ELSE path
        flags == <<b0 \/ here \cap {"strong", "b"} # {},
                   i0 \/ here \cap {"em", "i"} # {}>>
    IN IF n.kind # "tag"
       THEN IF AllWhitespace(n.string) THEN <<>> ELSE <<flags>>
       ELSE LET below == PathFlagsAll(n.contents, here, b0, i0)
            IN IF n.name = "a" /\ below = <<>> THEN <<flags>> ELSE below

FlagKeysTrue(t) ==
    /\ "bold" \in DOMAIN t => t.bold = TRUE
    /\ "italic" \in DOMAIN t => t.italic = TRUE

\* C4: a text node is bold exactly when the inherited bold was true or a
\* strong/b lies on the path from the resolved node down to its string, and
\* italic likewise for em/i; a sibling subtree is not on the path; a flag
\* that does not hold is an absent key, never false.  This holds of the
\* resolver under every inherited context, and of the blocks appended.
C4_FormattingAccumulates ==
    /\ \A j \in Processed : \A b \in BOOLEAN, i \in BOOLEAN :
          LET ts == TextsOf(_parse_inline(top_level[j], b, i))
          IN /\ [k \in 1..Len(ts) |->
                    <<"bold" \in DOMAIN ts[k], "italic" \in DOMAIN ts[k]>>]
                  = PathFlags(top_level[j], {}, b, i)
             /\ \A k \in 1..Len(ts) : FlagKeysTrue(ts[k])
    /\ \A j \in Processed :
          NumBlocksFrom(j) = 1 =>
              LET ts == TextsOf(<<BlockFrom(j)>>)
              IN /\ [k \in 1..Len(ts) |->
                        <<"bold" \in DOMAIN ts[k], "italic" \in DOMAIN ts[k]>>]
                      = PathFlagsAll(Resolved(top_level[j]), {}, FALSE, FALSE)
                 /\ \A k \in 1..Len(ts) : FlagKeysTrue(ts[k])

\* A returned block with a text node that is bold and italic, followed by a
\* sibling's text node that has neither key.
C4_Witness ==
    /\ Done
    /\ Len(blocks) = 1
    /\ \E k \in 1..Len(TextsOf(blocks)) :
          /\ k < Len(TextsOf(blocks))
          /\ HasFlags(TextsOf(blocks)[k], TRUE, TRUE)
          /\ HasFlags(TextsOf(blocks)[k + 1], FALSE, FALSE)

-----------------------------------------------------------------------------
(* C5 *)

Anchors(nodes) == SelectSeq(Descendants(nodes), LAMBDA n : IsTag(n, {"a"}))

LinksOf(outnodes) == SelectSeq(Flatten(outnodes), LAMBDA o : o.type = "link")

\* C5: an anchor resolves to exactly one link node, with url/title/target
\* the href/title/target attributes (None when absent) and children that are
\* never empty: the results of its direct children under the current
\* context in order, or, these being empty, one text node with the anchor's
\* text (leading and trailing newlines removed) and the context's flags.
\* The blocks hold one link per anchor handed to the resolver.
C5_AnchorGivesOneLink ==
    /\ \A a \in Range(Anchors(Seen)) : \A b \in BOOLEAN, i \in BOOLEAN :
          LET out == _parse_inline(a, b, i)
              kids == extend_all(a.contents, b, i)
          IN /\ Len(out) = 1
             /\ DOMAIN out[1] = {"type", "url", "title", "target", "children"}
             /\ out[1].type = "link"
             /\ out[1].url = (IF "href" \in DOMAIN a.attrs THEN a.attrs.href ELSE None)
             /\ out[1].title = (IF "title" \in DOMAIN a.attrs THEN a.attrs.title ELSE None)
             /\ out[1].target = (IF "target" \in DOMAIN a.attrs THEN a.attrs.target ELSE None)
             /\ out[1].children # <<>>
             /\ kids # <<>> => out[1].children = kids
             /\ kids = <<>> =>
                   /\ Len(out[1].children) = 1
                   /\ out[1].children[1].type = "text"
                   /\ out[1].children[1].value = NLTrim(get_text(a))
                   /\ HasFlags(out[1].children[1], b, i)
    /\ \A o \in Range(LinksOf(blocks)) : o.children # <<>>
    /\ \A j \in Processed :
          NumBlocksFrom(j) = 1 =>
              Len(LinksOf(<<BlockFrom(j)>>)) = Len(Anchors(Resolved(top_level[j])))

\* A returned link with its href as url, no title, and the fallback text
\* node, of empty value, as its only child.
C5_Witness ==
    /\ Done
    /\ \E o \in Range(LinksOf(blocks)) :
          /\ o.url = "u"
          /\ o.title = None
          /\ o.children = <<[type |-> "text", value |-> <<>>]>>

-----------------------------------------------------------------------------
(* C6 *)

NodeTypes == {"root", "paragraph", "heading", "list", "list-item", "quote", "text", "link"}

\* C6: every node of the returned tree has a type of NodeTypes; the root
\* holds only paragraph, heading, list and quote nodes; paragraph, heading,
\* list-item and link nodes hold only text and link nodes; a text node has
\* no children.
C6_SchemaShaped ==
    /\ Done => result.type = "root"
    /\ \A k \in 1..Len(blocks) :
          blocks[k].type \in {"paragraph", "heading", "list", "quote"}
    /\ \A o \in Range(Flatten(blocks)) :
             /\ o.type \in NodeTypes \ {"root"}
             /\ o.type = "text" => "children" \notin DOMAIN o
             /\ o.type \in {"paragraph", "heading", "list-item", "link"} =>
                   \A m \in 1..Len(o.children) : o.children[m].type \in {"text", "link"}

\* A returned paragraph from a <p> that holds a <ul> with an <li>, whose
\* children are text nodes, next to a paragraph from a top-level string.
C6_Witness ==
    /\ Done
    /\ \E j \in 1..Len(top_level) :
          /\ IsTag(top_level[j], {"p"})
          /\ \E k \in 1..Len(top_level[j].contents) :
                /\ IsTag(top_level[j].contents[k], {"ul"})
                /\ DirectLis(top_level[j].contents[k]) # <<>>
          /\ NumBlocksFrom(j) = 1
          /\ BlockFrom(j).children # <<>>
          /\ BlockFrom(j).children[1].type = "text"

-----------------------------------------------------------------------------
(* C7 *)

\* C7: every quote node has exactly one child, a paragraph whose children
\* are the resolver's results over the blockquote's content; a top-level
\* blockquote gives one, also when it holds nothing or only whitespace.
C7_QuoteWrapsOneParagraph ==
    /\ \A o \in Range(Flatten(blocks)) :
             o.type = "quote" =>
                /\ Len(o.children) = 1
                /\ o.children[1].type = "paragraph"
    /\ \A j \in Processed :
          IsTag(top_level[j], {"blockquote"}) =>
              /\ NumBlocksFrom(j) = 1
              /\ BlockFrom(j) =
                    [type |-> "quote",
                     children |->
                        <<[type |-> "paragraph",
                           children |-> extend_all(top_level[j].contents,
                                                   FALSE, FALSE)]>>]
    /\ \A k \in 1..Len(blocks) :
          blocks[k].type = "quote" => IsTag(top_level[origin[k]], {"blockquote"})

\* A returned quote from a blockquote that holds only whitespace: its
\* paragraph has no children.
C7_Witness ==
    /\ Done
    /\ Len(top_level) = 1
    /\ IsTag(top_level[1], {"blockquote"})
    /\ top_level[1].contents # <<>>
    /\ blocks = <<[type |-> "quote",
                   children |-> <<[type |-> "paragraph", children |-> <<>>]>>]>>

-----------------------------------------------------------------------------
(* C8 *)

HeadingNumber ==
    [t \in {"h1", "h2", "h3", "h4", "h5", "h6"} |->
        CASE t = "h1" -> 1 [] t = "h2" -> 2 [] t = "h3" -> 3
          [] t = "h4" -> 4 [] t = "h5" -> 5 [] t = "h6" -> 6]

\* C8: a top-level hN gives one heading of level N, p one paragraph, ul one
\* unordered and ol one ordered list (when an item is left), blockquote one
\* quote, and the blocks stand in the document order of their nodes.
C8_ClassifiedInOrder ==
    /\ \A j \in Processed :
          LET n == top_level[j]
          IN /\ IsTag(n, {"h1", "h2", "h3", "h4", "h5", "h6"}) =>
                   /\ NumBlocksFrom(j) = 1
                   /\ BlockFrom(j).type = "heading"
                   /\ BlockFrom(j).level = HeadingNumber[n.name]
             /\ IsTag(n, {"p"}) =>
                   NumBlocksFrom(j) = 1 /\ BlockFrom(j).type = "paragraph"
             /\ (IsTag(n, {"ul"}) /\ VisibleLis(n) # <<>>) =>
                   /\ NumBlocksFrom(j) = 1
                   /\ BlockFrom(j).type = "list"
                   /\ BlockFrom(j).listType = "unordered"
             /\ (IsTag(n, {"ol"}) /\ VisibleLis(n) # <<>>) =>
                   /\ NumBlocksFrom(j) = 1
                   /\ BlockFrom(j).type = "list"
                   /\ BlockFrom(j).listType = "ordered"
             /\ IsTag(n, {"blockquote"}) =>
                   NumBlocksFrom(j) = 1 /\ BlockFrom(j).type = "quote"
    /\ \A k \in 1..Len(blocks) :
          blocks[k].type = "heading" => blocks[k].level \in 1..6
    /\ Len(origin) = Len(root_children)
    /\ \A k \in 1..Len(origin) : \A m \in 1..Len(origin) :
          k < m => origin[k] < origin[m]

\* A returned tree with a level-6 heading from an <h6> followed by an
\* ordered list from an <ol>.
C8_Witness ==
    /\ Done
    /\ Len(top_level) = 2
    /\ IsTag(top_level[1], {"h6"})
    /\ IsTag(top_level[2], {"ol"})
    /\ Len(blocks) = 2
    /\ blocks[1].type = "heading" /\ blocks[1].level = 6
    /\ blocks[2].type = "list" /\ blocks[2].listType = "ordered"

-----------------------------------------------------------------------------
(* C9 *)

Strings(nodes) == SelectSeq(Descendants(nodes), LAMBDA n : n.kind # "tag")

\* The values of the text nodes made from the strings under nodes, in order.
RawValues(nodes) ==
    LET kept == SelectSeq(Strings(nodes), LAMBDA n : ~AllWhitespace(n.string))
    IN [k \in 1..Len(kept) |-> NLTrim(kept[k].string)]

\* The values of the text nodes of outnodes, an anchor's fallback text (the
\* only text node with an all-whitespace value, see C5) left out.
ValuesFromStrings(outnodes) ==
    LET kept == SelectSeq(TextsOf(outnodes), LAMBDA t : ~AllWhitespace(t.value))
    IN [k \in 1..Len(kept) |-> kept[k].value]

=============================================================================
